---- MODULE Spec2Model ----
(***************************************************************************)
(* Model of the authenticated-session state machine of irdata             *)
(* (src/auth.go, Irdata.auth): the login POST loop with its retry budget  *)
(* and backoff sleep, the verification GET, and the isAuthed flag.        *)
(*                                                                         *)
(* One process, one Irdata value.  A call of auth is a sequence of steps  *)
(* (pc), one per network interaction or sleep; the answers of the server  *)
(* and of the transport are inputs chosen with \E.  trace records the     *)
(* network requests and sleeps of the current call, in order.             *)
(***************************************************************************)
EXTENDS Integers, Sequences, FiniteSets, TLC

VARIABLES
    isAuthed,     \* Irdata.isAuthed
    pc,           \* position of the (single) caller inside auth
    authData,     \* the authDataT argument of the current call
    retries,      \* local variable retries of auth
    resp,         \* local variable resp of auth (*http.Response)
    err,          \* local variable err of auth (TRUE: non-nil)
    result,       \* what the current call returned ("pending" while it runs)
    prevResult,   \* what the call before it returned
    calls,        \* number of calls of auth made so far
    trace,        \* requests issued and sleeps taken by the current call
    confirmed,    \* some call saw login 200 followed by verification 200
    keyFile,      \* the file at keyFilename
    authFile,     \* the file at authFilename
    provided,     \* what CredsProvider.GetCreds returned
    key,          \* local variable key of writeCreds / readCreds
    block,        \* the cipher made by aes.NewCipher (holds its own key copy)
    nonce,        \* local variable nonce of writeCreds
    data,         \* the base64 text writeCreds is about to write
    fileData,     \* local variable authData of writeCreds / readCreds
    failure,      \* why the current operation panicked ("none" if it did not)
    ios,          \* file and cipher operations of the current store operation
    saved,        \* what the last successful writeCreds wrote, and with which key
    ops           \* number of entry-point calls and file changes so far

authVars == <<isAuthed, pc, authData, retries, resp, err, result, prevResult,
              calls, trace, confirmed>>

storeVars == <<keyFile, authFile, provided, key, block, nonce, data, fileData,
               failure, ios, saved, ops>>

vars == <<isAuthed, pc, authData, retries, resp, err, result, prevResult,
          calls, trace, confirmed, keyFile, authFile, provided, key, block,
          nonce, data, fileData, failure, ios, saved, ops>>

\* Number of calls of auth explored.
MaxCalls == 3

-----------------------------------------------------------------------------
(* Values *)

\* authDataT: the username does not influence control flow; the encoded
\* password is empty or not.
Creds == [Username : {"", "user"}, EncodedPassword : {"", "tok"}]

\* Status codes the server may answer with.
Statuses == {200, 201, 401, 404, 500, 503}

\* A nil *http.Response, and a response carrying a status code.
NilResp == [isNil |-> TRUE, StatusCode |-> 0]
Response(s) == [isNil |-> FALSE, StatusCode |-> s]

\* What httpClient.Post can return: a response and no error; no response and
\* an error (connection failure); or, when the redirect policy fails, the
\* redirect response together with an error.
PostOutcomes ==
    {[resp |-> Response(s), err |-> FALSE] : s \in Statuses}
    \cup {[resp |-> NilResp, err |-> TRUE]}
    \cup {[resp |-> Response(302), err |-> TRUE]}

\* What retryingGet can return: a response and no error, or an error.
GetOutcomes ==
    {[resp |-> Response(s), err |-> FALSE] : s \in Statuses}
    \cup {[resp |-> NilResp, err |-> TRUE]}

Event(k, v) == [kind |-> k, val |-> v]

-----------------------------------------------------------------------------
(* The decisions of auth *)

\* retries := 5
InitialRetries == 5

\* for retries > 0
\* (variant: an off-by-one loop test, one attempt too many)
LoopCond_Inclusive(r) == r >= 0
LoopCond(r) == r > 0

\* if resp.StatusCode < 500 { break }
\* (variant: client errors are retried as well)
BreaksLoop_Below400(status) == status < 400
BreaksLoop(status) == status < 500

\* time.Duration((6-retries)*5) * time.Second, in seconds
BackoffSeconds(r) == (6 - r) * 5

\* if resp.StatusCode != 200 { ... return error }, for the login response
\* (variant: any 2xx login status is accepted)
LoginOK_Any2xx(status) == status < 300
LoginOK(status) == status = 200

\* if resp.StatusCode != 200 { ... }, for the verification response
\* (variant: only 401 is treated as a failed verification)
VerifyOK_Not401(status) == status # 401
VerifyOK(status) == status = 200

\* the error returned for a verification status other than 200
\* (variant: 401 is not told apart)
VerifyError_Generic(status) == "authfailed"
VerifyError(status) == IF status = 401 THEN "checkcreds" ELSE "authfailed"

\* if authData.EncodedPassword == "" { return error }
\* (variant: the wrong field is tested)
HasCreds_Username(a) == a.Username # ""
HasCreds(a) == a.EncodedPassword # ""

\* The first two tests of auth, in order.
\* (variant: the test of isAuthed is missing)
Entry_NoAuthedTest(authed, a) ==
    IF ~HasCreds(a) THEN "precondition"
    ELSE "login"
\* (variant: the two tests swapped)
Entry_PreconditionFirst(authed, a) ==
    IF ~HasCreds(a) THEN "precondition"
    ELSE IF authed THEN "noop"
    ELSE "login"
Entry(authed, a) ==
    IF authed THEN "noop"
    ELSE IF ~HasCreds(a) THEN "precondition"
    ELSE "login"

-----------------------------------------------------------------------------
(* State *)

Init ==
    /\ isAuthed = FALSE
    /\ pc = "idle"
    /\ authData = [Username |-> "", EncodedPassword |-> ""]
    /\ retries = 0
    /\ resp = NilResp
    /\ err = FALSE
    /\ result = "none"
    /\ prevResult = "none"
    /\ calls = 0
    /\ trace = <<>>
    /\ confirmed = FALSE
    /\ keyFile = [exists |-> FALSE, perm |-> 0, readable |-> FALSE,
                  content |-> <<>>]
    /\ authFile = [exists |-> FALSE, content |-> <<>>]
    /\ provided = [username |-> <<>>, password |-> <<>>]
    /\ key = <<>>
    /\ block = [ok |-> FALSE, key |-> <<>>]
    /\ nonce = <<>>
    /\ data = <<>>
    /\ fileData = [Username |-> <<>>, EncodedPassword |-> <<>>]
    /\ failure = "none"
    /\ ios = <<>>
    /\ saved = [done |-> FALSE, key |-> <<>>, content |-> <<>>,
                authData |-> [Username |-> <<>>, EncodedPassword |-> <<>>]]
    /\ ops = 0

\* return v
Return(v) ==
    /\ pc' = "idle"
    /\ result' = v

\* panic: the goroutine unwinds out of auth; nothing is returned
Panic ==
    /\ pc' = "panicked"
    /\ result' = "panic"

-----------------------------------------------------------------------------
(* Steps of auth *)

\* A caller invokes i.auth(a): the two early returns, then retries := 5.
\* (variant: retries is not set again, as if it were a field of Irdata)
Auth_KeepRetries(a) ==
    /\ pc = "idle"
    /\ calls < MaxCalls
    /\ calls' = calls + 1
    /\ authData' = a
    /\ prevResult' = result
    /\ trace' = <<>>
    /\ CASE Entry(isAuthed, a) = "noop" ->
              /\ Return("ok")
              /\ UNCHANGED <<retries, resp, err>>
         [] Entry(isAuthed, a) = "precondition" ->
              /\ Return("precondition")
              /\ UNCHANGED <<retries, resp, err>>
         [] OTHER ->
              /\ pc' = "loop"
              /\ result' = "pending"
              /\ resp' = NilResp
              /\ err' = FALSE
              /\ UNCHANGED retries
    /\ UNCHANGED <<isAuthed, confirmed>>
    /\ UNCHANGED storeVars

Auth(a) ==
    /\ pc = "idle"
    /\ calls < MaxCalls
    /\ calls' = calls + 1
    /\ authData' = a
    /\ prevResult' = result
    /\ trace' = <<>>
    /\ CASE Entry(isAuthed, a) = "noop" ->
              /\ Return("ok")
              /\ UNCHANGED <<retries, resp, err>>
         [] Entry(isAuthed, a) = "precondition" ->
              /\ Return("precondition")
              /\ UNCHANGED <<retries, resp, err>>
         [] OTHER ->
              /\ pc' = "loop"
              /\ result' = "pending"
              /\ retries' = InitialRetries
              /\ resp' = NilResp
              /\ err' = FALSE
    /\ UNCHANGED <<isAuthed, confirmed>>
    /\ UNCHANGED storeVars

\* Loop test true: the POST, its answer, and the test of the status code.
\* A nil resp makes resp.StatusCode a nil dereference, which panics.
PostLogin ==
    /\ pc = "loop"
    /\ LoopCond(retries)
    /\ \E o \in PostOutcomes :
         /\ resp' = o.resp
         /\ err' = o.err
         /\ trace' = Append(trace,
                IF o.err THEN Event("postErr", 0)
                         ELSE Event("post", o.resp.StatusCode))
         /\ IF o.resp.isNil
              THEN Panic
              ELSE /\ pc' = IF BreaksLoop(o.resp.StatusCode)
                              THEN "check" ELSE "backoff"
                   /\ UNCHANGED result
    /\ UNCHANGED <<isAuthed, authData, retries, prevResult, calls, confirmed>>
    /\ UNCHANGED storeVars

\* retries--; time.Sleep(...)
RetrySleep ==
    /\ pc = "backoff"
    /\ retries' = retries - 1
    /\ trace' = Append(trace, Event("sleep", BackoffSeconds(retries')))
    /\ pc' = "loop"
    /\ UNCHANGED <<isAuthed, authData, resp, err, result, prevResult, calls,
                   confirmed>>
    /\ UNCHANGED storeVars

\* Loop test false: the budget is used up.
LoopExit ==
    /\ pc = "loop"
    /\ ~LoopCond(retries)
    /\ pc' = "check"
    /\ UNCHANGED <<isAuthed, authData, retries, resp, err, result, prevResult,
                   calls, trace, confirmed>>
    /\ UNCHANGED storeVars

\* After the loop: if err != nil { log.Panic }, then the test for 200.
CheckLogin ==
    /\ pc = "check"
    /\ IF err
         THEN Panic
         ELSE IF ~LoginOK(resp.StatusCode)
                THEN Return("authfailed")
                ELSE /\ pc' = "verify"
                     /\ UNCHANGED result
    /\ UNCHANGED <<isAuthed, authData, retries, resp, err, prevResult, calls,
                   trace, confirmed>>
    /\ UNCHANGED storeVars

\* resp, err = i.retryingGet(testUrl), and everything after it.
Verify ==
    /\ pc = "verify"
    /\ \E o \in GetOutcomes :
         /\ resp' = o.resp
         /\ err' = o.err
         /\ trace' = Append(trace,
                IF o.err THEN Event("getErr", 0)
                         ELSE Event("get", o.resp.StatusCode))
         /\ IF o.err
              THEN /\ Panic
                   /\ UNCHANGED isAuthed
              ELSE IF ~VerifyOK(o.resp.StatusCode)
                     THEN /\ Return(VerifyError(o.resp.StatusCode))
                          /\ UNCHANGED isAuthed
                     ELSE /\ isAuthed' = TRUE
                          /\ Return("ok")
    /\ confirmed' = (confirmed \/
          \E i, j \in DOMAIN trace' :
              /\ i < j
              /\ trace'[i] = Event("post", 200)
              /\ trace'[j] = Event("get", 200))
    /\ UNCHANGED <<authData, retries, prevResult, calls>>
    /\ UNCHANGED storeVars

AuthCall == \E a \in Creds : Auth(a)

Next ==
    \/ AuthCall
    \/ PostLogin
    \/ RetrySleep
    \/ LoopExit
    \/ CheckLogin
    \/ Verify

Spec == Init /\ [][Next]_vars

\* auth runs on the caller's goroutine: once invoked, each of its steps is
\* taken (the transport answers or times out, the sleep ends).
Running == PostLogin \/ RetrySleep \/ LoopExit \/ CheckLogin \/ Verify
FairSpec == Spec /\ WF_vars(Running)

TypeOK ==
    /\ isAuthed \in BOOLEAN
    /\ pc \in {"idle", "loop", "backoff", "check", "verify", "panicked"}
    /\ authData \in Creds
    /\ retries \in 0..InitialRetries
    /\ err \in BOOLEAN
    /\ result \in {"none", "pending", "ok", "precondition", "authfailed",
                   "checkcreds", "panic"}
    /\ calls \in 0..MaxCalls
    /\ confirmed \in BOOLEAN

-----------------------------------------------------------------------------
(* Reading the trace of the current call *)

IsPost(e) == e.kind \in {"post", "postErr"}
IsGet(e) == e.kind \in {"get", "getErr"}
IsSleep(e) == e.kind = "sleep"

Posts(t) == SelectSeq(t, IsPost)
Gets(t) == SelectSeq(t, IsGet)
Sleeps(t) == SelectSeq(t, IsSleep)

Last(t) == t[Len(t)]
LastPost(t) == Last(Posts(t))

\* A login POST came back at the transport level with a retryable status.
IsServerError(e) == e.kind = "post" /\ e.val >= 500

Failures == {"precondition", "authfailed", "checkcreds", "panic"}

-----------------------------------------------------------------------------
(* Claims *)

\* C1: in every reachable state, isAuthed is true only if some call of auth
\* received status 200 from the login POST and afterwards status 200 from
\* the verification GET.
C1_AuthedOnlyAfterLoginAndVerify == isAuthed => confirmed

C1_Witness ==
    /\ isAuthed
    /\ pc = "idle"
    /\ result = "ok"
    /\ Len(trace) >= 2
    /\ LastPost(trace) = Event("post", 200)
    /\ Last(trace) = Event("get", 200)

\* C2: a call of auth on an authenticated session returns success at once,
\* whatever the credentials, having issued no POST, no GET and no sleep;
\* and no call is in flight once the session is authenticated.
C2_AuthedCallIsNoOp ==
    [][ /\ isAuthed => pc = "idle"
        /\ (isAuthed /\ calls' = calls + 1) =>
              /\ pc' = "idle"
              /\ result' = "ok"
              /\ trace' = <<>>
              /\ isAuthed' ]_vars

C2_Witness ==
    /\ isAuthed
    /\ calls >= 2
    /\ prevResult = "ok"
    /\ authData.EncodedPassword = ""
    /\ result = "ok"
    /\ trace = <<>>

\* C3: a call that ends in a failure leaves isAuthed false, and the next
\* call with a non-empty secret starts at the first login POST with a budget
\* of 5 attempts and nothing left over from the failed call.
C3_FailureNotPoisoned ==
    [][ /\ result' \in Failures => ~isAuthed'
        /\ (result \in Failures /\ calls' = calls + 1
               /\ authData'.EncodedPassword # "") =>
              /\ pc' = "loop"
              /\ retries' = 5
              /\ resp' = NilResp
              /\ ~err'
              /\ trace' = <<>>
              /\ ~isAuthed' ]_vars

C3_Witness ==
    /\ prevResult \in Failures
    /\ result = "ok"
    /\ isAuthed
    /\ Len(Posts(trace)) >= 1
    /\ Len(Gets(trace)) = 1

\* C4: on an unauthenticated session, a call with an empty secret returns the
\* precondition error before any POST, GET or sleep, and isAuthed stays false.
C4_EmptySecretRejected ==
    [][ (~isAuthed /\ calls' = calls + 1 /\ authData'.EncodedPassword = "") =>
              /\ pc' = "idle"
              /\ result' = "precondition"
              /\ trace' = <<>>
              /\ ~isAuthed' ]_vars

C4_Witness ==
    /\ ~isAuthed
    /\ pc = "idle"
    /\ authData.EncodedPassword = ""
    /\ authData.Username # ""
    /\ result = "precondition"
    /\ trace = <<>>

\* C5: a call issues at most 5 login POSTs and at most 1 verification GET,
\* and a call that has started comes to its end.
C5_BoundedAndTerminates ==
    /\ [](Len(Posts(trace)) <= 5 /\ Len(Gets(trace)) <= 1)
    /\ [](pc \notin {"idle", "panicked"} => <>(pc \in {"idle", "panicked"}))

C5_Witness ==
    /\ pc = "idle"
    /\ result = "authfailed"
    /\ Len(Posts(trace)) = 5
    /\ \A i \in 1..5 : IsServerError(Posts(trace)[i])

\* C6: a call that succeeds after k login answers with status >= 500 has
\* issued k+1 POSTs and slept k times, the i-th sleep lasting 5*i seconds.
C6_BackoffDelays ==
    (pc = "idle" /\ result = "ok" /\ trace # <<>>) =>
        LET k == Len(SelectSeq(trace, IsServerError)) IN
            /\ Len(Posts(trace)) = k + 1
            /\ Len(Sleeps(trace)) = k
            /\ \A i \in 1..Len(Sleeps(trace)) : Sleeps(trace)[i].val = 5 * i

\* C7: within a call, a login POST or a backoff sleep that follows a login
\* POST happens only when that POST was answered with a status >= 500.
C7_RetryOnlyAfterServerError ==
    [][ (/\ Len(trace') = Len(trace) + 1
         /\ Last(trace').kind \in {"post", "postErr", "sleep"}
         /\ Posts(trace) # <<>>) =>
              IsServerError(LastPost(trace)) ]_vars

C7_Witness ==
    /\ pc = "idle"
    /\ Len(Posts(trace)) = 3
    /\ Len(Sleeps(trace)) = 2
    /\ LastPost(trace) = Event("post", 404)
    /\ Last(trace) = Event("post", 404)

\* C8: when the last login response of a call has a status other than 200,
\* the call issues no verification GET, leaves isAuthed false, does not
\* panic, and returns the generic authentication failure.
C8_LoginNot200Fails ==
    (/\ Posts(trace) # <<>>
     /\ LastPost(trace).kind = "post"
     /\ LastPost(trace).val # 200) =>
        /\ Gets(trace) = <<>>
        /\ ~isAuthed
        /\ pc \in {"loop", "backoff", "check", "idle"}
        /\ pc = "idle" => result = "authfailed"

C8_Witness ==
    /\ pc = "idle"
    /\ result = "authfailed"
    /\ Len(Posts(trace)) = 5
    /\ LastPost(trace) = Event("post", 503)
    /\ Len(Sleeps(trace)) = 5

\* C9: after a login response of 200 the verification status alone decides:
\* 200 gives success, 401 gives "login failed, check creds", any other
\* status the generic failure; isAuthed stays false in the failing cases.
C9_VerifyStatusDecides ==
    (/\ Posts(trace) # <<>>
     /\ LastPost(trace) = Event("post", 200)
     /\ Gets(trace) # <<>>
     /\ Last(trace).kind = "get") =>
        /\ pc = "idle"
        /\ Last(trace).val = 200 => (result = "ok" /\ isAuthed)
        /\ Last(trace).val = 401 => (result = "checkcreds" /\ ~isAuthed)
        /\ Last(trace).val \notin {200, 401} =>
               (result = "authfailed" /\ ~isAuthed)

C9_Witness ==
    /\ pc = "idle"
    /\ result = "checkcreds"
    /\ ~isAuthed
    /\ LastPost(trace) = Event("post", 200)
    /\ Last(trace) = Event("get", 401)

\* C10: no call of auth ends in a panic; every failure is a returned error.
C10_NoPanic == pc # "panicked" /\ result # "panic"

\* C19: in a finished call every backoff sleep is followed by another login
\* POST; a call sleeps at most 4 times and fewer times than it POSTs.
C19_SleepOnlyBetweenPosts ==
    (pc \in {"idle", "panicked"} /\ Posts(trace) # <<>>) =>
        /\ \A i \in DOMAIN trace :
              IsSleep(trace[i]) =>
                  \E j \in DOMAIN trace : j > i /\ IsPost(trace[j])
        /\ Len(Sleeps(trace)) <= 4
        /\ Len(Sleeps(trace)) < Len(Posts(trace))

-----------------------------------------------------------------------------
(* Credential store: bytes, text and the library functions it calls.       *)
(* A byte is a number in 0..255, a string of the program a sequence of     *)
(* byte values; text files hold ASCII codes.                               *)

RECURSIVE XorBits(_, _, _)
XorBits(a, b, n) ==
    IF n = 0 THEN 0
    ELSE ((a + b) % 2) + 2 * XorBits(a \div 2, b \div 2, n - 1)

\* a ^ b on bytes
Xor(a, b) == XorBits(a, b, 8)

\* strings.ToLower, on ASCII
LowerByte(b) == IF b >= 65 /\ b <= 90 THEN b + 32 ELSE b
ToLower(s) == [i \in 1..Len(s) |-> LowerByte(s[i])]

\* The alphabet of base64.StdEncoding: A-Z a-z 0-9 + /, padding =
B64Char(v) ==
    IF v < 26 THEN 65 + v
    ELSE IF v < 52 THEN 97 + (v - 26)
    ELSE IF v < 62 THEN 48 + (v - 52)
    ELSE IF v = 62 THEN 43
    ELSE 47

B64Pad == 61

\* The 6-bit value of a character, 64 for a character outside the alphabet.
B64Value(c) ==
    IF c >= 65 /\ c <= 90 THEN c - 65
    ELSE IF c >= 97 /\ c <= 122 THEN c - 97 + 26
    ELSE IF c >= 48 /\ c <= 57 THEN c - 48 + 52
    ELSE IF c = 43 THEN 62
    ELSE IF c = 47 THEN 63
    ELSE 64

\* base64.StdEncoding.Strict().EncodeToString
RECURSIVE B64EncodeFrom(_, _)
B64EncodeFrom(b, i) ==
    LET left == Len(b) - i + 1 IN
    IF left <= 0 THEN <<>>
    ELSE IF left = 1 THEN
        << B64Char(b[i] \div 4), B64Char((b[i] % 4) * 16), B64Pad, B64Pad >>
    ELSE IF left = 2 THEN
        << B64Char(b[i] \div 4),
           B64Char((b[i] % 4) * 16 + b[i+1] \div 16),
           B64Char((b[i+1] % 16) * 4),
           B64Pad >>
    ELSE
        << B64Char(b[i] \div 4),
           B64Char((b[i] % 4) * 16 + b[i+1] \div 16),
           B64Char((b[i+1] % 16) * 4 + b[i+2] \div 64),
           B64Char(b[i+2] % 64) >> \o B64EncodeFrom(b, i + 3)

B64Encode(b) == B64EncodeFrom(b, 1)

\* The decoder skips '\r' and '\n'.
NotNewline(c) == c # 10 /\ c # 13

\* One group of four characters; last: it is the final group of the text.
B64Quantum(c, i, last) ==
    LET v1 == B64Value(c[i])
        v2 == B64Value(c[i+1])
        v3 == B64Value(c[i+2])
        v4 == B64Value(c[i+3])
    IN  IF v1 = 64 \/ v2 = 64 THEN [ok |-> FALSE, bytes |-> <<>>]
        ELSE IF last /\ c[i+2] = B64Pad /\ c[i+3] = B64Pad THEN
            \* strict: the unused low bits must be zero
            IF v2 % 16 # 0 THEN [ok |-> FALSE, bytes |-> <<>>]
            ELSE [ok |-> TRUE, bytes |-> << v1 * 4 + v2 \div 16 >>]
        ELSE IF v3 = 64 THEN [ok |-> FALSE, bytes |-> <<>>]
        ELSE IF last /\ c[i+3] = B64Pad THEN
            IF v3 % 4 # 0 THEN [ok |-> FALSE, bytes |-> <<>>]
            ELSE [ok |-> TRUE, bytes |-> << v1 * 4 + v2 \div 16,
                                            (v2 % 16) * 16 + v3 \div 4 >>]
        ELSE IF v4 = 64 THEN [ok |-> FALSE, bytes |-> <<>>]
        ELSE [ok |-> TRUE, bytes |-> << v1 * 4 + v2 \div 16,
                                        (v2 % 16) * 16 + v3 \div 4,
                                        (v3 % 4) * 64 + v4 >>]

RECURSIVE B64DecodeFrom(_, _)
B64DecodeFrom(c, i) ==
    IF i > Len(c) THEN [ok |-> TRUE, bytes |-> <<>>]
    ELSE LET q == B64Quantum(c, i, i + 3 = Len(c))
             rest == B64DecodeFrom(c, i + 4)
         IN  IF q.ok /\ rest.ok
               THEN [ok |-> TRUE, bytes |-> q.bytes \o rest.bytes]
               ELSE [ok |-> FALSE, bytes |-> <<>>]

\* base64.StdEncoding.Strict().DecodeString: ok is FALSE for a
\* CorruptInputError
B64Decode(text) ==
    LET c == SelectSeq(text, NotNewline) IN
    IF Len(c) % 4 # 0 THEN [ok |-> FALSE, bytes |-> <<>>]
    ELSE B64DecodeFrom(c, 1)

\* sha256: a 32-byte digest.  The digest function stands for SHA-256 as a
\* collision-free hash: it is injective on messages of fewer than 32 bytes.
Sha256(m) ==
    [i \in 1..32 |->
        IF i = 1 THEN Len(m)
        ELSE IF i - 1 <= Len(m) THEN (m[i-1] * 7 + 13) % 256
        ELSE 0]

\* encodePassword: the hasher is fed the password, then the lower-cased
\* username; the digest is base64-encoded.
\* (variant: the username is hashed as given)
EncodePassword_NoLower(username, password) ==
    B64Encode(Sha256(password \o username))
\* (variant: the username is hashed first)
EncodePassword_UserFirst(username, password) ==
    B64Encode(Sha256(ToLower(username) \o password))
EncodePassword(username, password) ==
    B64Encode(Sha256(password \o ToLower(username)))

\* gob encoding of authDataT, reduced to its content: each field as its
\* length followed by its bytes.
GobEncode(a) ==
    << Len(a.Username) >> \o a.Username
        \o << Len(a.EncodedPassword) >> \o a.EncodedPassword

GobDecode(b) ==
    IF Len(b) < 1 \/ Len(b) < 2 + b[1] THEN [ok |-> FALSE]
    ELSE LET n == b[1]
             m == b[n + 2]
         IN  IF Len(b) # n + m + 2 THEN [ok |-> FALSE]
             ELSE [ok |-> TRUE,
                   value |-> [Username |-> SubSeq(b, 2, n + 1),
                              EncodedPassword |-> SubSeq(b, n + 3, n + m + 2)]]

\* var additionalContext = []byte("irdata.auth")
additionalContext == <<105, 114, 100, 97, 116, 97, 46, 97, 117, 116, 104>>

\* aes.NewCipher: a key of 16, 24 or 32 bytes, else KeySizeError.  The
\* cipher keeps its own copy of the key (the expanded key schedule).
ValidKeySize(k) == Len(k) \in {16, 24, 32}
NewCipher(k) ==
    IF ValidKeySize(k) THEN [ok |-> TRUE, key |-> k]
    ELSE [ok |-> FALSE, key |-> <<>>]

\* gcm.NonceSize() and the length of the GCM tag
NonceSize == 12
TagSize == 16

\* A keyed checksum of a byte string and its length.  It stands for the
\* pseudo-random functions of AES-GCM: any change of one bit of the string,
\* and any change of its length, changes it.
RECURSIVE MixFrom(_, _)
MixFrom(s, i) ==
    IF i > Len(s) THEN 0
    ELSE ((i * 131 + 7) * s[i] + MixFrom(s, i + 1)) % 65521
Mix(s) == (Len(s) * 8191 + MixFrom(s, 1)) % 65521

\* The i-th byte of the key stream of the counter mode.
KeyStream(k, n, i) == (Mix(k) + 3 * Mix(n) + 17 * i) % 256

\* Counter mode: encryption and decryption are the same XOR.
Ctr(k, n, text) == [i \in 1..Len(text) |-> Xor(text[i], KeyStream(k, n, i))]

\* The authentication tag over nonce, ciphertext and associated data.
GcmTag(k, n, c, ad) ==
    LET t == (Mix(k) * 7919 + Mix(n) * 127 + Mix(c) * 31 + Mix(ad)) % 65521
    IN  [j \in 1..TagSize |->
            IF j = 1 THEN t \div 256
            ELSE IF j = 2 THEN t % 256
            ELSE (t + j * Len(c)) % 256]

\* aesgcm.Seal(dst, nonce, plaintext, additionalData)
GcmSeal(k, dst, n, plaintext, ad) ==
    LET c == Ctr(k, n, plaintext) IN dst \o c \o GcmTag(k, n, c, ad)

\* aesgcm.Open(nil, nonce, ciphertext, additionalData): ok is FALSE for
\* "cipher: message authentication failed"
GcmOpen(k, n, sealed, ad) ==
    IF Len(sealed) < TagSize THEN [ok |-> FALSE, plaintext |-> <<>>]
    ELSE LET c == SubSeq(sealed, 1, Len(sealed) - TagSize)
             t == SubSeq(sealed, Len(sealed) - TagSize + 1, Len(sealed))
         IN  IF t # GcmTag(k, n, c, ad)
               THEN [ok |-> FALSE, plaintext |-> <<>>]
               ELSE [ok |-> TRUE, plaintext |-> Ctr(k, n, c)]

\* shred: every byte of the buffer becomes 0x69
Shred(k) == [i \in 1..Len(k) |-> 105]

-----------------------------------------------------------------------------
(* Credential store: files and inputs *)

\* Number of entry-point calls and key-file replacements explored.
MaxOps == 3

\* 0400, the only permission bits getKey accepts
OwnerReadOnly == 256

Key16 == [i \in 1..16 |-> i]
Key24 == [i \in 1..24 |-> 100 + i]
Key32 == [i \in 1..32 |-> 200 + i]

KeyFileOf(k, perm) ==
    [exists |-> TRUE, perm |-> perm, readable |-> TRUE,
     content |-> B64Encode(k)]

NoFile == [exists |-> FALSE, perm |-> 0, readable |-> FALSE, content |-> <<>>]

\* The key files of the model: the three key sizes with mode 0400; a key
\* with mode 0600 and one with mode 0444; no file; a file of another owner;
\* text that is not base64 ("!!!!"); a key of 5 bytes.
KeyFiles ==
    { KeyFileOf(Key16, OwnerReadOnly),
      KeyFileOf(Key24, OwnerReadOnly),
      KeyFileOf(Key32, OwnerReadOnly),
      KeyFileOf(Key16, 384),
      KeyFileOf(Key16, 292),
      NoFile,
      [exists |-> TRUE, perm |-> OwnerReadOnly, readable |-> FALSE,
       content |-> B64Encode(Key16)],
      [exists |-> TRUE, perm |-> OwnerReadOnly, readable |-> TRUE,
       content |-> <<33, 33, 33, 33>>],
      KeyFileOf(<<1, 2, 3, 4, 5>>, OwnerReadOnly) }

\* What CredsProvider.GetCreds can return: "Ab" or "ab", "p" or "q".
Provided == [username : {<<65, 98>>, <<97, 98>>},
             password : {<<112>>, <<113>>}]

\* What rand.Read can put into the nonce.
Nonces == { [i \in 1..NonceSize |-> 1], [i \in 1..NonceSize |-> 2 * i] }

NoAuthData == [Username |-> <<>>, EncodedPassword |-> <<>>]

-----------------------------------------------------------------------------
(* Credential store: getKey, writeCreds, readCreds *)

\* (variant: any mode that lets the owner read is accepted)
PermOK_OwnerCanRead(perm) == (perm \div 256) % 2 = 1
\* (stat.Mode() & os.ModePerm) != 0400
PermOK(perm) == perm = OwnerReadOnly

\* getKey on file f: the file operations it performs, the reason of its
\* panic ("none": it returns), and the key it returns.
GetKeyRun(f) ==
    IF ~f.exists THEN
        [ios |-> <<"stat">>, failure |-> "stat", key |-> <<>>]
    ELSE IF ~PermOK(f.perm) THEN
        [ios |-> <<"stat">>, failure |-> "perm", key |-> <<>>]
    ELSE IF ~f.readable THEN
        [ios |-> <<"stat", "readKey">>, failure |-> "readKey", key |-> <<>>]
    ELSE IF ~B64Decode(f.content).ok THEN
        [ios |-> <<"stat", "readKey">>, failure |-> "decodeKey", key |-> <<>>]
    ELSE
        [ios |-> <<"stat", "readKey">>, failure |-> "none",
         key |-> B64Decode(f.content).bytes]

\* The key buffer after "block, err := aes.NewCipher(key); shred(&key)";
\* ok: err is nil.
\* (variant: the shred comes after the test of err)
KeyAfterCipher_ShredAfterTest(k, ok) == IF ok THEN Shred(k) ELSE k
KeyAfterCipher(k, ok) == Shred(k)

\* The rest of readCreds, from os.ReadFile(authFilename) to the return, on
\* file f with the cipher's key k.
\* (variant: the associated data is not checked, nor is the tag)
OpenRun_NoCheck(f, k) ==
    IF ~f.exists THEN
        [ios |-> <<"readAuth">>, failure |-> "readAuth", value |-> NoAuthData]
    ELSE IF ~B64Decode(f.content).ok THEN
        [ios |-> <<"readAuth">>, failure |-> "decodeAuth", value |-> NoAuthData]
    ELSE LET d == B64Decode(f.content).bytes IN
        IF Len(d) < NonceSize + TagSize THEN
            [ios |-> <<"readAuth">>, failure |-> "sliceBounds",
             value |-> NoAuthData]
        ELSE LET g == GobDecode(Ctr(k, SubSeq(d, 1, NonceSize),
                          SubSeq(d, NonceSize + 1, Len(d) - TagSize)))
             IN  IF ~g.ok THEN
                     [ios |-> <<"readAuth", "open", "gobDecode">>,
                      failure |-> "gobDecode", value |-> NoAuthData]
                 ELSE
                     [ios |-> <<"readAuth", "open", "gobDecode">>,
                      failure |-> "none", value |-> g.value]

OpenRun(f, k) ==
    IF ~f.exists THEN
        [ios |-> <<"readAuth">>, failure |-> "readAuth", value |-> NoAuthData]
    ELSE IF ~B64Decode(f.content).ok THEN
        [ios |-> <<"readAuth">>, failure |-> "decodeAuth", value |-> NoAuthData]
    ELSE LET d == B64Decode(f.content).bytes IN
        IF Len(d) < NonceSize THEN
            \* data[:aesgcm.NonceSize()]: slice bounds out of range
            [ios |-> <<"readAuth">>, failure |-> "sliceBounds",
             value |-> NoAuthData]
        ELSE LET o == GcmOpen(k, SubSeq(d, 1, NonceSize),
                              SubSeq(d, NonceSize + 1, Len(d)),
                              additionalContext)
             IN  IF ~o.ok THEN
                     [ios |-> <<"readAuth", "open">>, failure |-> "integrity",
                      value |-> NoAuthData]
                 ELSE IF ~GobDecode(o.plaintext).ok THEN
                     [ios |-> <<"readAuth", "open", "gobDecode">>,
                      failure |-> "gobDecode", value |-> NoAuthData]
                 ELSE
                     [ios |-> <<"readAuth", "open", "gobDecode">>,
                      failure |-> "none",
                      value |-> GobDecode(o.plaintext).value]

\* The text writeCreds writes for authDataT a, with the cipher's key k and
\* nonce n: gob encoding, aesgcm.Seal(nonce, nonce, ...), base64 encoding.
\* (variant: aesgcm.Seal(nil, nonce, ...), the nonce is not put in front)
EnvelopeOf_NoNoncePrefix(a, k, n) ==
    B64Encode(GcmSeal(k, <<>>, n, GobEncode(a), additionalContext))
EnvelopeOf(a, k, n) ==
    B64Encode(GcmSeal(k, n, n, GobEncode(a), additionalContext))

\* log.Panic / a runtime panic inside the store
StorePanic(why) ==
    /\ pc' = "panicked"
    /\ result' = "panic"
    /\ failure' = why

sessionVars == <<isAuthed, authData, retries, resp, err, prevResult, calls,
                 trace, confirmed>>

\* A new entry point is running: the locals of an earlier call of auth are
\* gone and no request has been issued.
NoAuthLocals ==
    /\ retries' = 0
    /\ resp' = NilResp
    /\ err' = FALSE
    /\ trace' = <<>>

\* writeCreds names authFilename for the first time in os.WriteFile, its
\* last statement: entering the save leaves the file alone.
\* (variant: the file is created, hence truncated, on entry)
AuthFileOnSaveEntry_Truncate ==
    authFile' = [exists |-> TRUE, content |-> <<>>]
AuthFileOnSaveEntry ==
    authFile' = authFile

\* SaveProvidedCredsToFile up to the call of writeCreds.
SaveStart ==
    /\ pc = "idle"
    /\ ops < MaxOps
    /\ ops' = ops + 1
    /\ \E c \in Provided :
         /\ provided' = c
         /\ fileData' = [Username |-> c.username,
                         EncodedPassword |->
                             EncodePassword(c.username, c.password)]
    /\ pc' = "w_getKey"
    /\ result' = "pending"
    /\ failure' = "none"
    /\ ios' = <<"getCreds">>
    /\ key' = <<>>
    /\ block' = [ok |-> FALSE, key |-> <<>>]
    /\ nonce' = <<>>
    /\ data' = <<>>
    /\ AuthFileOnSaveEntry
    /\ UNCHANGED <<keyFile, saved>>
    /\ NoAuthLocals
    /\ UNCHANGED <<isAuthed, authData, prevResult, calls, confirmed>>

\* readCreds is entered (from AuthWithCredsFromFile).
LoadStart ==
    /\ pc = "idle"
    /\ ops < MaxOps
    /\ ops' = ops + 1
    /\ pc' = "r_getKey"
    /\ result' = "pending"
    /\ failure' = "none"
    /\ ios' = <<>>
    /\ key' = <<>>
    /\ block' = [ok |-> FALSE, key |-> <<>>]
    /\ nonce' = <<>>
    /\ data' = <<>>
    /\ fileData' = NoAuthData
    /\ UNCHANGED <<keyFile, authFile, provided, saved>>
    /\ NoAuthLocals
    /\ UNCHANGED <<isAuthed, authData, prevResult, calls, confirmed>>

\* key := getKey(keyFilename)
GetKey ==
    /\ pc \in {"w_getKey", "r_getKey"}
    /\ LET r == GetKeyRun(keyFile) IN
         /\ ios' = ios \o r.ios
         /\ key' = r.key
         /\ IF r.failure # "none"
              THEN StorePanic(r.failure)
              ELSE /\ pc' = IF pc = "w_getKey" THEN "w_cipher" ELSE "r_cipher"
                   /\ UNCHANGED <<result, failure>>
    /\ UNCHANGED <<keyFile, authFile, provided, block, nonce, data, fileData,
                   saved, ops>>
    /\ UNCHANGED sessionVars

\* block, err := aes.NewCipher(key); shred(&key); the test of err;
\* aesgcm, err := cipher.NewGCM(block), which accepts every AES cipher.
MakeCipher ==
    /\ pc \in {"w_cipher", "r_cipher"}
    /\ block' = NewCipher(key)
    /\ key' = KeyAfterCipher(key, block'.ok)
    /\ IF ~block'.ok
         THEN /\ StorePanic("keySize")
              /\ ios' = ios \o <<"newCipher", "shred">>
         ELSE /\ pc' = IF pc = "w_cipher" THEN "w_nonce" ELSE "r_read"
              /\ ios' = ios \o <<"newCipher", "shred", "newGCM">>
              /\ UNCHANGED <<result, failure>>
    /\ UNCHANGED <<keyFile, authFile, provided, nonce, data, fileData, saved,
                   ops>>
    /\ UNCHANGED sessionVars

\* makeNonce, then gob encoding, Seal and base64 encoding.
\* rand.Read may fail, which leaves the nonce as make() zeroed it.
SealEnvelope ==
    /\ pc = "w_nonce"
    /\ \/ /\ nonce' = [i \in 1..NonceSize |-> 0]
          /\ ios' = ios \o <<"nonce">>
          /\ StorePanic("nonce")
          /\ UNCHANGED data
       \/ \E n \in Nonces :
          /\ nonce' = n
          /\ data' = EnvelopeOf(fileData, block.key, n)
          /\ ios' = ios \o <<"nonce", "gob", "seal">>
          /\ pc' = "w_write"
          /\ UNCHANGED <<result, failure>>
    /\ UNCHANGED <<keyFile, authFile, provided, key, block, fileData, saved,
                   ops>>
    /\ UNCHANGED sessionVars

\* os.WriteFile(authFilename, []byte(base64data), os.ModePerm): it succeeds,
\* or fails before the file is opened, or fails after it was truncated.
WriteEnvelope ==
    /\ pc = "w_write"
    /\ ios' = ios \o <<"write">>
    /\ \/ /\ authFile' = [exists |-> TRUE, content |-> data]
          /\ saved' = [done |-> TRUE, key |-> block.key, content |-> data,
                       authData |-> fileData]
          /\ pc' = "idle"
          /\ result' = "ok"
          /\ UNCHANGED failure
       \/ /\ UNCHANGED <<authFile, saved>>
          /\ StorePanic("write")
       \/ /\ authFile' = [exists |-> TRUE, content |-> <<>>]
          /\ UNCHANGED saved
          /\ StorePanic("write")
    /\ UNCHANGED <<keyFile, provided, key, block, nonce, data, fileData, ops>>
    /\ UNCHANGED sessionVars

\* readCreds from os.ReadFile(authFilename) to "return authData".
OpenEnvelope ==
    /\ pc = "r_read"
    /\ LET r == OpenRun(authFile, block.key) IN
         /\ ios' = ios \o r.ios
         /\ fileData' = r.value
         /\ IF r.failure # "none"
              THEN StorePanic(r.failure)
              ELSE /\ pc' = "loaded"
                   /\ UNCHANGED <<result, failure>>
    /\ UNCHANGED <<keyFile, authFile, provided, key, block, nonce, data,
                   saved, ops>>
    /\ UNCHANGED sessionVars

\* readCreds has returned authData to its caller, which does nothing more.
LoadReturn ==
    /\ pc = "loaded"
    /\ pc' = "idle"
    /\ result' = "ok"
    /\ UNCHANGED storeVars
    /\ UNCHANGED sessionVars

-----------------------------------------------------------------------------
(* The files change under the program *)

RECURSIVE Pow2(_)
Pow2(n) == IF n = 0 THEN 1 ELSE 2 * Pow2(n - 1)

\* One bit of the envelope that writeCreds wrote is flipped before the
\* process reads it, the key file being the one it was written with.
FlipBit ==
    /\ pc = "idle"
    /\ ops = 0
    /\ saved.done
    /\ authFile = [exists |-> TRUE, content |-> saved.content]
    /\ keyFile = KeyFileOf(saved.key, OwnerReadOnly)
    /\ \E i \in 1..Len(authFile.content), b \in 0..7 :
         authFile' = [authFile EXCEPT
                         !.content[i] = Xor(authFile.content[i], Pow2(b))]
    /\ UNCHANGED <<keyFile, provided, key, block, nonce, data, fileData,
                   failure, ios, saved, ops>>
    /\ UNCHANGED <<pc, result>>
    /\ UNCHANGED sessionVars

\* The key file is replaced by another one, the credential file being as
\* writeCreds left it.
ReplaceKeyFile ==
    /\ pc = "idle"
    /\ ops < MaxOps
    /\ saved.done => authFile = [exists |-> TRUE, content |-> saved.content]
    /\ ops' = ops + 1
    /\ \E f \in KeyFiles \ {keyFile} : keyFile' = f
    /\ UNCHANGED <<authFile, provided, key, block, nonce, data, fileData,
                   failure, ios, saved>>
    /\ UNCHANGED <<pc, result>>
    /\ UNCHANGED sessionVars

\* The store alone: any key file, no credential file or one too short to
\* hold a nonce ("AAAA").
StoreInit ==
    /\ isAuthed = FALSE
    /\ pc = "idle"
    /\ authData = [Username |-> "", EncodedPassword |-> ""]
    /\ retries = 0
    /\ resp = NilResp
    /\ err = FALSE
    /\ result = "none"
    /\ prevResult = "none"
    /\ calls = 0
    /\ trace = <<>>
    /\ confirmed = FALSE
    /\ keyFile \in KeyFiles
    /\ authFile \in { [exists |-> FALSE, content |-> <<>>],
                      [exists |-> TRUE, content |-> <<65, 65, 65, 65>>] }
    /\ provided = [username |-> <<>>, password |-> <<>>]
    /\ key = <<>>
    /\ block = [ok |-> FALSE, key |-> <<>>]
    /\ nonce = <<>>
    /\ data = <<>>
    /\ fileData = NoAuthData
    /\ failure = "none"
    /\ ios = <<>>
    /\ saved = [done |-> FALSE, key |-> <<>>, content |-> <<>>,
                authData |-> NoAuthData]
    /\ ops = 0

StoreNext ==
    \/ SaveStart
    \/ LoadStart
    \/ GetKey
    \/ MakeCipher
    \/ SealEnvelope
    \/ WriteEnvelope
    \/ OpenEnvelope
    \/ LoadReturn
    \/ ReplaceKeyFile

StoreSpec == StoreInit /\ [][StoreNext]_vars

\* A process that starts with the files an earlier SaveProvidedCredsToFile
\* left: a key file of mode 0400 and the envelope written with it.
TamperInit ==
    /\ isAuthed = FALSE
    /\ pc = "idle"
    /\ authData = [Username |-> "", EncodedPassword |-> ""]
    /\ retries = 0
    /\ resp = NilResp
    /\ err = FALSE
    /\ result = "none"
    /\ prevResult = "none"
    /\ calls = 0
    /\ trace = <<>>
    /\ confirmed = FALSE
    /\ \E k \in {Key16, Key24, Key32}, c \in Provided, n \in Nonces :
         LET a == [Username |-> c.username,
                   EncodedPassword |-> EncodePassword(c.username, c.password)]
         IN  /\ keyFile = KeyFileOf(k, OwnerReadOnly)
             /\ authFile = [exists |-> TRUE, content |-> EnvelopeOf(a, k, n)]
             /\ saved = [done |-> TRUE, key |-> k,
                         content |-> EnvelopeOf(a, k, n), authData |-> a]
    /\ provided = [username |-> <<>>, password |-> <<>>]
    /\ key = <<>>
    /\ block = [ok |-> FALSE, key |-> <<>>]
    /\ nonce = <<>>
    /\ data = <<>>
    /\ fileData = NoAuthData
    /\ failure = "none"
    /\ ios = <<>>
    /\ ops = 0

TamperNext ==
    \/ LoadStart
    \/ GetKey
    \/ MakeCipher
    \/ OpenEnvelope
    \/ LoadReturn
    \/ FlipBit
    \/ ReplaceKeyFile

TamperSpec == TamperInit /\ [][TamperNext]_vars

-----------------------------------------------------------------------------
(* The public entry points on one session *)

\* The authDataT handed to auth, as auth looks at it: a field is empty or not.
AsCreds(a) ==
    [Username |-> IF a.Username = <<>> THEN "" ELSE "user",
     EncodedPassword |-> IF a.EncodedPassword = <<>> THEN "" ELSE "tok"]

\* "return i.auth(authData)": the entry of auth, as in Auth.
\* (variant: the flag is cleared on entry and set again by a successful login)
AuthEnter_ClearFlag(a) ==
    /\ calls' = calls + 1
    /\ authData' = a
    /\ prevResult' = result
    /\ trace' = <<>>
    /\ isAuthed' = FALSE
    /\ CASE Entry(isAuthed, a) = "noop" ->
              /\ Return("ok")
              /\ UNCHANGED <<retries, resp, err>>
         [] Entry(isAuthed, a) = "precondition" ->
              /\ Return("precondition")
              /\ UNCHANGED <<retries, resp, err>>
         [] OTHER ->
              /\ pc' = "loop"
              /\ result' = "pending"
              /\ retries' = InitialRetries
              /\ resp' = NilResp
              /\ err' = FALSE
    /\ UNCHANGED confirmed

AuthEnter(a) ==
    /\ calls' = calls + 1
    /\ authData' = a
    /\ prevResult' = result
    /\ trace' = <<>>
    /\ CASE Entry(isAuthed, a) = "noop" ->
              /\ Return("ok")
              /\ UNCHANGED <<retries, resp, err>>
         [] Entry(isAuthed, a) = "precondition" ->
              /\ Return("precondition")
              /\ UNCHANGED <<retries, resp, err>>
         [] OTHER ->
              /\ pc' = "loop"
              /\ result' = "pending"
              /\ retries' = InitialRetries
              /\ resp' = NilResp
              /\ err' = FALSE
    /\ UNCHANGED <<isAuthed, confirmed>>

\* AuthWithCredsFromFile after readCreds has returned: return i.auth(authData)
AuthFromFile ==
    /\ pc = "loaded"
    /\ AuthEnter(AsCreds(fileData))
    /\ UNCHANGED storeVars

\* AuthWithProvideCreds: GetCreds, encodePassword, return i.auth(authData)
AuthProvided ==
    /\ pc = "idle"
    /\ ops < MaxOps
    /\ ops' = ops + 1
    /\ \E c \in Provided :
         AuthEnter(AsCreds([Username |-> c.username,
                            EncodedPassword |->
                                EncodePassword(c.username, c.password)]))
    /\ ios' = <<"getCreds">>
    /\ failure' = "none"
    /\ provided' = [username |-> <<>>, password |-> <<>>]
    /\ fileData' = NoAuthData
    /\ key' = <<>>
    /\ block' = [ok |-> FALSE, key |-> <<>>]
    /\ nonce' = <<>>
    /\ data' = <<>>
    /\ UNCHANGED <<keyFile, authFile, saved>>

\* One session and the three entry points AuthWithCredsFromFile,
\* AuthWithProvideCreds and SaveProvidedCredsToFile.
SessionNext ==
    \/ LoadStart
    \/ GetKey
    \/ MakeCipher
    \/ OpenEnvelope
    \/ AuthFromFile
    \/ AuthProvided
    \/ PostLogin
    \/ RetrySleep
    \/ LoopExit
    \/ CheckLogin
    \/ Verify
    \/ SaveStart
    \/ SealEnvelope
    \/ WriteEnvelope

\* The session starts with a key file, of mode 0400 or 0600, and without a
\* credential file.
SessionInit ==
    /\ StoreInit
    /\ keyFile \in {KeyFileOf(Key16, OwnerReadOnly), KeyFileOf(Key16, 384)}
    /\ ~authFile.exists

SessionSpec == SessionInit /\ [][SessionNext]_vars

-----------------------------------------------------------------------------
(* Claims about the session and the credential store *)

InIos(e) == \E i \in DOMAIN ios : ios[i] = e

\* C11: isAuthed starts false and, once true, stays true through every step
\* of AuthWithCredsFromFile, AuthWithProvideCreds and SaveProvidedCredsToFile.
C11_FlagMonotone ==
    /\ ~isAuthed
    /\ [][isAuthed => isAuthed']_vars

\* an authenticated session has since completed a save
C11_Witness ==
    /\ isAuthed
    /\ pc = "idle"
    /\ result = "ok"
    /\ ios # <<>>
    /\ ios[Len(ios)] = "write"
    /\ calls >= 1

\* C12: with a key file whose permission bits are not 0400, getKey panics
\* right after the stat, in save and in load: the key file is not read, no
\* cipher is made, the credential file is neither read nor written.
C12_BadPermFailsFirst ==
    [][ (/\ pc \in {"w_getKey", "r_getKey"}
         /\ keyFile.exists
         /\ keyFile.perm # 256) =>
              /\ pc' = "panicked"
              /\ failure' = "perm"
              /\ ios \in {<<>>, <<"getCreds">>}
              /\ ios' = ios \o <<"stat">>
              /\ key' = <<>>
              /\ block' = [ok |-> FALSE, key |-> <<>>]
              /\ authFile' = authFile
              /\ keyFile' = keyFile
              /\ fileData' = fileData ]_vars

C12_Witness ==
    /\ pc = "panicked"
    /\ failure = "perm"
    /\ keyFile.perm = 292
    /\ ios = <<"getCreds", "stat">>
    /\ saved.done

\* C13: at every step after the cipher construction, and at every exit after
\* it (also when the construction failed), each byte of the key buffer is
\* the sentinel 0x69.
C13_KeyShredded ==
    (pc \in {"w_nonce", "w_write", "r_read", "loaded"} \/ InIos("newCipher")) =>
        /\ Len(key) > 0
        /\ \A i \in DOMAIN key : key[i] = 105
        /\ block.ok => Len(key) = Len(block.key)

\* the construction failed on a key of 5 bytes
C13_Witness ==
    /\ pc = "panicked"
    /\ failure = "keySize"
    /\ key = <<105, 105, 105, 105, 105>>
    /\ ios = <<"stat", "readKey", "newCipher", "shred">>


\* C14: a save that fails at getKey, at the cipher construction or at the
\* nonce leaves the credential file as it was; the file changes only in the
\* final write, after every earlier step succeeded, and a save that succeeds
\* has written one complete envelope: nonce, ciphertext of the gob record
\* and tag, base64 encoded.
C14_NoPartialSave ==
    [][ /\ (pc' \in {"w_getKey", "w_cipher", "w_nonce", "w_write"}
              \/ pc \in {"w_getKey", "w_cipher", "w_nonce"}) =>
                 authFile' = authFile
        /\ (authFile' # authFile) =>
              /\ pc = "w_write"
              /\ failure = "none"
              /\ block.ok
              /\ Len(nonce) = NonceSize
              /\ B64Decode(data).ok
              /\ Len(B64Decode(data).bytes) =
                    NonceSize + Len(GobEncode(fileData)) + TagSize
              /\ SubSeq(B64Decode(data).bytes, 1, NonceSize) = nonce
        /\ (pc = "w_write" /\ result' = "ok") =>
              authFile' = [exists |-> TRUE, content |-> data] ]_vars

\* a save after a successful one failed at the nonce: the file is the old one
C14_Witness ==
    /\ pc = "panicked"
    /\ failure = "nonce"
    /\ saved.done
    /\ authFile = [exists |-> TRUE, content |-> saved.content]
    /\ fileData # saved.authData

\* C15: loading the file a save wrote, with the key the save used, returns
\* the record that was saved, whatever the nonce.
C15_RoundTrip ==
    [][ (/\ pc = "r_read"
         /\ saved.done
         /\ authFile = [exists |-> TRUE, content |-> saved.content]
         /\ block.key = saved.key) =>
              /\ pc' = "loaded"
              /\ fileData' = saved.authData
              /\ failure' = "none" ]_vars

C15_Witness ==
    /\ pc = "loaded"
    /\ saved.done
    /\ block.key = saved.key
    /\ fileData = saved.authData
    /\ fileData.Username = <<65, 98>>
    /\ Len(fileData.EncodedPassword) = 44


\* A load has run to its end with a cipher made from the key file.
LoadOutcome == block.ok /\ pc \in {"loaded", "panicked"} /\ InIos("readAuth")

\* The saved file or the key is not the one of the save.
Tampered ==
    /\ saved.done
    /\ \/ authFile.content # saved.content
       \/ block.key # saved.key

\* C16 as stated: a load of the saved file with a different key, or after
\* any one bit of the file was flipped, fails with the AEAD integrity error.
C16_FailsWithIntegrityError ==
    (LoadOutcome /\ Tampered) => (pc = "panicked" /\ failure = "integrity")

\* C16: a load of the saved file with a different key fails with the AEAD
\* integrity error; after a flip of one bit of the file it fails either in
\* the base64 decoding or with the AEAD integrity error.  A load returns a
\* record only for the unmodified file opened with the key of the save, and
\* then the record of the save.
C16_FailsClosed ==
    /\ (LoadOutcome /\ Tampered) =>
          /\ pc = "panicked"
          /\ failure \in {"decodeAuth", "integrity"}
          /\ fileData = NoAuthData
          /\ (failure = "decodeAuth") <=> ~B64Decode(authFile.content).ok
          /\ (authFile.content = saved.content) => failure = "integrity"
    /\ (pc = "loaded" /\ saved.done) =>
          /\ authFile.content = saved.content
          /\ block.key = saved.key
          /\ fileData = saved.authData

\* a flipped bit that leaves valid base64 is caught by the tag
C16_Witness ==
    /\ pc = "panicked"
    /\ failure = "integrity"
    /\ saved.done
    /\ authFile.content # saved.content
    /\ block.key = saved.key
    /\ B64Decode(authFile.content).ok

\* a different key on the unmodified file
C16_WrongKeyWitness ==
    /\ pc = "panicked"
    /\ failure = "integrity"
    /\ authFile.content = saved.content
    /\ block.ok
    /\ block.key # saved.key

\* a flipped bit that makes the text invalid base64
C16_DecodeFailureReached ==
    /\ pc = "panicked"
    /\ failure = "decodeAuth"
    /\ saved.done
    /\ authFile.content # saved.content
    /\ block.key = saved.key


-----------------------------------------------------------------------------
(* encodePassword on its own *)

\* The arguments encodePassword is tried on: usernames in every letter case,
\* with and without letters, and passwords of up to two bytes.
Usernames == { <<>>, <<97>>, <<65>>, <<98>>, <<97, 98>>, <<65, 98>>,
               <<97, 66>>, <<65, 66>>, <<97, 49>>, <<65, 49>>, <<90, 122>>,
               <<64, 91>> }
Passwords == { <<>>, <<112>>, <<113>>, <<80>>, <<112, 113>>, <<97>>,
               <<97, 98>>, <<255, 0>> }

\* A call encodePassword(username, password) is about to be made.
EncodeInit ==
    /\ isAuthed = FALSE
    /\ pc = "idle"
    /\ authData = [Username |-> "", EncodedPassword |-> ""]
    /\ retries = 0
    /\ resp = NilResp
    /\ err = FALSE
    /\ result = "none"
    /\ prevResult = "none"
    /\ calls = 0
    /\ trace = <<>>
    /\ confirmed = FALSE
    /\ keyFile = NoFile
    /\ authFile = [exists |-> FALSE, content |-> <<>>]
    /\ provided \in [username : Usernames, password : Passwords]
    /\ key = <<>>
    /\ block = [ok |-> FALSE, key |-> <<>>]
    /\ nonce = <<>>
    /\ data = <<>>
    /\ fileData = NoAuthData
    /\ failure = "none"
    /\ ios = <<>>
    /\ saved = [done |-> FALSE, key |-> <<>>, content |-> <<>>,
                authData |-> NoAuthData]
    /\ ops = 0

\* The call: data holds the token it returned.
Encode ==
    /\ pc = "idle"
    /\ ops = 0
    /\ ops' = 1
    /\ data' = EncodePassword(provided.username, provided.password)
    /\ UNCHANGED <<keyFile, authFile, provided, key, block, nonce, fileData,
                   failure, ios, saved>>
    /\ UNCHANGED authVars

EncodeNext == Encode

EncodeSpec == EncodeInit /\ [][EncodeNext]_vars


\* C17: the token is base64(SHA-256(password bytes, then the lower-cased
\* username bytes)); usernames that differ only in letter case give the same
\* token for every password, and for a fixed username two different
\* passwords give different tokens.
C17_EncodePassword ==
    (ops = 1 /\ pc = "idle" /\ ~saved.done /\ ios = <<>>) =>
        /\ data = B64Encode(Sha256(provided.password \o
                                   ToLower(provided.username)))
        /\ Len(data) = 44
        /\ B64Decode(data).ok
        /\ B64Decode(data).bytes =
              Sha256(provided.password \o ToLower(provided.username))
        /\ \A u \in Usernames :
              (ToLower(u) = ToLower(provided.username)) =>
                  EncodePassword(u, provided.password) = data
        /\ \A p \in Passwords :
              (p # provided.password) =>
                  EncodePassword(provided.username, p) # data

\* the token of a username with an upper-case letter
C17_Witness ==
    /\ ops = 1
    /\ ios = <<>>
    /\ provided = [username |-> <<65, 98>>, password |-> <<112>>]
    /\ data = EncodePassword(<<97, 98>>, <<112>>)
    /\ Len(data) = 44


\* A step that enters AuthWithCredsFromFile or AuthWithProvideCreds.
AuthEntryStep ==
    /\ pc = "idle"
    /\ ops' = ops + 1
    /\ pc' # "w_getKey"

\* C18 as stated: on an authenticated session the two entry points return
\* success at once, with no stat or read of the key file, no read of the
\* credential file and no call of GetCreds.
C18_AuthedEntryPureNoOp ==
    [][ (isAuthed /\ AuthEntryStep) =>
            /\ pc' = "idle"
            /\ result' = "ok"
            /\ ios' = <<>> ]_vars

\* C18: on an authenticated session the two entry points issue no request
\* and keep the flag.  AuthWithProvideCreds calls GetCreds once and returns
\* success.  AuthWithCredsFromFile runs readCreds first, which stats and reads
\* the key file and reads the credential file: it returns success when
\* readCreds returns, and panics when readCreds does.
C18_AuthedEntryNoRequest ==
    [][ isAuthed =>
            /\ isAuthed'
            /\ trace' \in {trace, <<>>}
            /\ pc' \in {"idle", "panicked", "loaded", "r_getKey", "r_cipher",
                        "r_read", "w_getKey", "w_cipher", "w_nonce", "w_write"}
            /\ (AuthEntryStep /\ pc' = "idle") =>
                  (result' = "ok" /\ ios' = <<"getCreds">>)
            /\ (AuthEntryStep /\ pc' # "idle") =>
                  (pc' = "r_getKey" /\ ios' = <<>>)
            /\ (pc = "r_getKey") => (ios' = ios \o <<"stat">>
                                       \/ ios' = ios \o <<"stat", "readKey">>)
            /\ (pc = "r_read") => (Len(ios') > Len(ios)
                                     /\ ios'[Len(ios) + 1] = "readAuth")
            /\ (pc = "loaded") =>
                  (pc' = "idle" /\ result' = "ok" /\ ios' = ios) ]_vars

\* an authenticated session whose AuthWithCredsFromFile panicked on the
\* permission bits of the key file
C18_Witness ==
    /\ isAuthed
    /\ pc = "panicked"
    /\ failure = "perm"
    /\ ios = <<"stat">>
    /\ calls = 1

\* an authenticated session on which AuthWithCredsFromFile returned success
\* after readCreds read both files
C18_LoadedWitness ==
    /\ isAuthed
    /\ pc = "idle"
    /\ result = "ok"
    /\ calls >= 2
    /\ InIos("readKey")
    /\ InIos("readAuth")
    /\ trace = <<>>

====
